---- MODULE Spec2Model ----
(***************************************************************************)
(* Model of the TODO service of src/main.py (FastAPI handlers over an      *)
(* SQLite table, an importer that reads one todo from an external API, a   *)
(* background generator started at startup) and of the WebSocket client    *)
(* of src/client.py.                                                       *)
(*                                                                         *)
(* Python values that may be None are sequences of length at most one:     *)
(* <<>> is None and <<v>> is the value v.  A JSON object and a request     *)
(* body are functions from the keys that were sent to such values, so a    *)
(* key that is absent and a key whose value is null stay different.        *)
(***************************************************************************)
EXTENDS Integers, Sequences, FiniteSets, TLC

VARIABLES
    tasks,      \* the rows of table "tasks"
    resp,       \* the last finished request and the response its caller got
    manual,     \* the POST /task-generator/run requests in flight
    sched,      \* the background generator: where it is, what it fetched
    bgLog,      \* the last line the background generator printed
    registry,   \* the listener sessions connected to /ws/tasks
    inbox,      \* per listener session, the events delivered to it
    published   \* the events published so far, in order

vars == <<tasks, resp, manual, sched, bgLog, registry, inbox, published>>

----------------------------------------------------------------------------
(* Bounds *)

MaxId == 2          \* the largest id the table of the model gives a row

\* The manual-trigger requests that can be in flight at once, and the
\* listener clients.
ManualRequests == {"m1", "m2"}
Listeners == {"l1"}

----------------------------------------------------------------------------
(* Python values *)

None == <<>>
Some(v) == <<v>>

\* dict.get / attribute of a body: the value under key k, or the default d.
Get(data, k, d) == IF k \in DOMAIN data THEN data[k] ELSE d

\* bool(v) of None or of a boolean.
Bool(v) == IF v = None THEN FALSE ELSE v[1]

\* str(v) as an f-string formats it: None prints as "None".
Str(v) == IF v = None THEN "None" ELSE ToString(v[1])

\* A dict restricted to the keys K.
Restrict(d, K) == [k \in K |-> d[k]]

\* The dicts that hold any subset of the keys of the records in R.
Dicts(R) ==
    {Restrict(r, K) : r \in R, K \in SUBSET (DOMAIN (CHOOSE x \in R : TRUE))}

----------------------------------------------------------------------------
(* The table and the Pydantic models *)

Titles == {"a", "b"}
Descriptions == {"d"}

\* Row of table tasks.
TaskDB(id, title, description, completed) ==
    [id |-> id, title |-> title, description |-> description,
     completed |-> completed]

\* nullable=False on title and completed: the INSERT or UPDATE of such a row
\* fails.
NotNullOk(row) == row.title # None /\ row.completed # None

IdsOf(table) == {r.id : r \in table}

Ids == IdsOf(tasks)

\* The row of a table under a primary key, or None.
Lookup(table, id) ==
    IF id \in IdsOf(table) THEN Some(CHOOSE r \in table : r.id = id) ELSE None

\* session.get(TaskDB, task_id)
SessionGet(task_id) == Lookup(tasks, task_id)

SetMax(S) == CHOOSE m \in S : \A n \in S : n <= m

\* Faulty variant: the new id is the number of rows plus one.
NewRowIdByCount == Cardinality(tasks) + 1

\* INTEGER PRIMARY KEY without AUTOINCREMENT: SQLite gives a new row one more
\* than the largest rowid in the table, and 1 in an empty table.
NewRowId == IF tasks = {} THEN 1 ELSE SetMax(Ids) + 1

\* Bodies TaskCreate accepts: title is required, description may be null,
\* completed must be a boolean when given.
TaskCreateBodies ==
    {d \in Dicts([title : {Some(t) : t \in Titles},
                  description : {None} \cup {Some(x) : x \in Descriptions},
                  completed : {Some(b) : b \in BOOLEAN}]) :
        "title" \in DOMAIN d}

\* TaskBase: the defaults of the fields the body did not send.
TaskBase(body) ==
    [title |-> body["title"],
     description |-> Get(body, "description", None),
     completed |-> Get(body, "completed", Some(FALSE))]

\* Bodies TaskUpdate accepts: every field optional, and null allowed (here
\* for title and description).
TaskUpdateBodies ==
    Dicts([title : {None, Some("b")},
           description : {None} \cup {Some(x) : x \in Descriptions},
           completed : {Some(TRUE)}])

Fields == {"title", "description", "completed"}

\* Faulty variant: model_dump() without exclude_unset, unset fields as None.
ModelDumpAll(body) == [f \in Fields |-> Get(body, f, None)]

\* data.model_dump(exclude_unset=True): only the fields the body sent.
ModelDump(body) == body

\* for field, value in update_data.items(): setattr(task, field, value)
SetAttrs(row, update_data) ==
    [f \in DOMAIN row |->
        IF f \in DOMAIN update_data THEN update_data[f] ELSE row[f]]

\* What session.commit() can do: succeed, or fail on the database.
CommitOutcomes == {"ok", "OperationalError"}

----------------------------------------------------------------------------
(* Responses *)

NoTask == None

\* op and id are the handler and the task_id of its path, patch the body a
\* PATCH that went through applied; the rest is the answer.
Response(op, id, status, error, task) ==
    [op |-> op, id |-> id, status |-> status, error |-> error, task |-> task,
     list |-> <<>>, patch |-> <<>>]

\* raise HTTPException(status_code=404, detail="Task not found")
NotFound(op, id) == Response(op, id, 404, "Task not found", NoTask)

\* An exception no handler catches: FastAPI answers 500.
ServerError(op, id, error) == Response(op, id, 500, error, NoTask)

----------------------------------------------------------------------------
(* Events of the real-time channel *)

Event(kind, task_id, task) == [event |-> kind, task_id |-> task_id, task |-> task]

----------------------------------------------------------------------------
(* REST handlers *)

Frame == UNCHANGED <<manual, sched, bgLog, registry, inbox, published>>

\* select(TaskDB).order_by(TaskDB.id): the rows in increasing id.
RECURSIVE OrderById(_)
OrderById(rows) ==
    IF rows = {} THEN <<>>
    ELSE LET last == CHOOSE r \in rows : \A q \in rows : q.id <= r.id
         IN Append(OrderById(rows \ {last}), last)

\* GET /tasks
get_tasks ==
    /\ resp' = [Response("get_tasks", 0, 200, "", NoTask)
                   EXCEPT !.list = OrderById(tasks)]
    /\ tasks' = tasks
    /\ Frame

\* GET /tasks/{task_id}
get_task(task_id) ==
    LET task == SessionGet(task_id) IN
    /\ resp' = IF task = None THEN NotFound("get_task", task_id)
               ELSE Response("get_task", task_id, 200, "", task)
    /\ tasks' = tasks
    /\ Frame

\* POST /tasks
create_task(data, commit) ==
    LET f == TaskBase(data)
        task == TaskDB(NewRowId, f.title, f.description, f.completed)
    IN
    /\ IF commit = "ok" /\ NotNullOk(task)
       THEN /\ NewRowId <= MaxId
            /\ resp' = Response("create_task", task.id, 201, "", Some(task))
            /\ tasks' = tasks \cup {task}
       ELSE /\ resp' = ServerError("create_task", 0,
                          IF commit = "ok" THEN "IntegrityError" ELSE commit)
            /\ tasks' = tasks
    /\ Frame

\* Faulty variant: the updated row is written back as a new row.
update_task_reinsert(task_id, data, commit) ==
    LET found == SessionGet(task_id) IN
    /\ IF found = None
       THEN /\ resp' = NotFound("update_task", task_id)
            /\ tasks' = tasks
       ELSE LET task == [SetAttrs(found[1], ModelDump(data)) EXCEPT !.id = NewRowId] IN
            IF commit = "ok" /\ NotNullOk(task)
            THEN /\ resp' = [Response("update_task", task_id, 200, "", Some(task))
                               EXCEPT !.patch = data]
                 /\ tasks' = (tasks \ {found[1]}) \cup {task}
            ELSE /\ resp' = ServerError("update_task", task_id,
                               IF commit = "ok" THEN "IntegrityError" ELSE commit)
                 /\ tasks' = tasks
    /\ Frame

\* PATCH /tasks/{task_id}
update_task(task_id, data, commit) ==
    LET found == SessionGet(task_id) IN
    /\ IF found = None
       THEN /\ resp' = NotFound("update_task", task_id)
            /\ tasks' = tasks
       ELSE LET task == SetAttrs(found[1], ModelDump(data)) IN
            IF commit = "ok" /\ NotNullOk(task)
            THEN /\ resp' = [Response("update_task", task_id, 200, "", Some(task))
                               EXCEPT !.patch = data]
                 /\ tasks' = (tasks \ {found[1]}) \cup {task}
            ELSE /\ resp' = ServerError("update_task", task_id,
                               IF commit = "ok" THEN "IntegrityError" ELSE commit)
                 /\ tasks' = tasks
    /\ Frame

\* Faulty variant: no 404 check, the DELETE is issued whatever is stored.
delete_task_unchecked(task_id, commit) ==
    /\ resp' = Response("delete_task", task_id, 200, "deleted", NoTask)
    /\ tasks' = {r \in tasks : r.id # task_id}
    /\ Frame

\* DELETE /tasks/{task_id}
delete_task(task_id, commit) ==
    LET found == SessionGet(task_id) IN
    /\ IF found = None
       THEN /\ resp' = NotFound("delete_task", task_id)
            /\ tasks' = tasks
       ELSE IF commit = "ok"
            THEN /\ resp' = Response("delete_task", task_id, 200, "deleted", NoTask)
                 /\ tasks' = tasks \ {found[1]}
            ELSE /\ resp' = ServerError("delete_task", task_id, commit)
                 /\ tasks' = tasks
    /\ Frame

----------------------------------------------------------------------------
(* The external source *)

\* A JSON value the external API can answer with: an object (its members a
\* dict) or an array.
Json(type, members) == [type |-> type, members |-> members]

\* The objects: a whole todo, one with no title and no id, one with no
\* completed.
JsonObjects ==
    {Json("object", [id |-> Some(1), title |-> Some("b"), completed |-> Some(TRUE)]),
     Json("object", [completed |-> Some(TRUE)]),
     Json("object", [id |-> Some(1), title |-> Some("b")])}

\* What the GET of one todo can come back with: the request raising, a
\* status, and a body that parses as JSON or does not.
HttpResponse(raised, status, parses, json) ==
    [raised |-> raised, status |-> status, parses |-> parses, json |-> json]

NoJson == Json("none", <<>>)

HttpResponses ==
    {HttpResponse("ConnectError", 0, FALSE, NoJson),
     HttpResponse("", 404, TRUE, Json("object", <<>>)),
     HttpResponse("", 200, FALSE, NoJson),
     HttpResponse("", 200, TRUE, Json("array", <<>>))}
    \cup {HttpResponse("", 200, TRUE, j) : j \in JsonObjects}

\* What a call returns: the exception it raised ("" when none) and its value.
Returned(value) == [raised |-> "", value |-> value]
Raised(exception) == [raised |-> exception, value |-> None]

\* Faulty variant: resp.raise_for_status() is left out.
fetch_without_raise_for_status(http) ==
    IF http.raised # "" THEN Raised(http.raised)
    ELSE IF ~http.parses THEN Raised("JSONDecodeError")
    ELSE Returned(Some(http.json))

\* fetch_external_todo: client.get, resp.raise_for_status(), resp.json().
fetch_external_todo(http) ==
    IF http.raised # "" THEN Raised(http.raised)
    ELSE IF http.status >= 400 THEN Raised("HTTPStatusError")
    ELSE IF ~http.parses THEN Raised("JSONDecodeError")
    ELSE Returned(Some(http.json))

\* Faulty variant: data["title"] and data["completed"] instead of data.get.
ImportedTaskStrict(data) ==
    IF data.type # "object" THEN Raised("AttributeError")
    ELSE IF ~({"title", "completed"} \subseteq DOMAIN data.members)
    THEN Raised("KeyError")
    ELSE Returned(Some(TaskDB(NewRowId, data.members["title"],
             Some("Imported from JSONPlaceholder, remote_id="
                     \o Str(Get(data.members, "id", None))),
             data.members["completed"])))

\* The row create_task_from_external builds from the fetched data; data.get
\* of a value that is no dict raises AttributeError.
ImportedTask(data) ==
    IF data.type # "object" THEN Raised("AttributeError")
    ELSE LET title == Get(data.members, "title", Some("Imported task"))
             completed == Some(Bool(Get(data.members, "completed", Some(FALSE))))
             remote_id == Get(data.members, "id", None)
             description ==
                 Some("Imported from JSONPlaceholder, remote_id=" \o Str(remote_id))
         IN Returned(Some(TaskDB(NewRowId, title, description, completed)))

\* Faulty variant: a commit that raises has written the row all the same.
StoreImportedNoRollback(data, commit) ==
    LET built == ImportedTask(data) IN
    IF built.raised # "" THEN [result |-> built, table |-> tasks]
    ELSE IF ~NotNullOk(built.value[1])
    THEN [result |-> Raised("IntegrityError"), table |-> tasks]
    ELSE [result |-> IF commit # "ok" THEN Raised(commit) ELSE built,
          table |-> tasks \cup {built.value[1]}]

\* session.add(task); commit; refresh; return task: what the second half of
\* create_task_from_external returns, and the table after it.
StoreImported(data, commit) ==
    LET built == ImportedTask(data) IN
    IF built.raised # "" THEN [result |-> built, table |-> tasks]
    ELSE IF commit # "ok" THEN [result |-> Raised(commit), table |-> tasks]
    ELSE IF ~NotNullOk(built.value[1])
    THEN [result |-> Raised("IntegrityError"), table |-> tasks]
    ELSE [result |-> built, table |-> tasks \cup {built.value[1]}]

\* The insert can go through: the table of the model has room for the row.
HasRoom(stored) == \A r \in stored.table : r.id <= MaxId

----------------------------------------------------------------------------
(* POST /task-generator/run, in its two awaits *)

ManualFrame == UNCHANGED <<sched, bgLog, registry, inbox, published>>

\* The request arrives and create_task_from_external awaits the fetch.
run_task_generator_fetch(i, http) ==
    LET got == fetch_external_todo(http) IN
    /\ manual[i] = None
    /\ IF got.raised # ""
       THEN /\ resp' = ServerError("run_task_generator", 0, got.raised)
            /\ manual' = manual
       ELSE /\ manual' = [manual EXCEPT ![i] = got.value]
            /\ resp' = resp
    /\ tasks' = tasks
    /\ ManualFrame

\* The fetched data is stored and the task returned.
run_task_generator_store(i, commit) ==
    /\ manual[i] # None
    /\ LET stored == StoreImported(manual[i][1], commit) IN
       /\ HasRoom(stored)
       /\ tasks' = stored.table
       /\ resp' = IF stored.result.raised # ""
                  THEN ServerError("run_task_generator", 0, stored.result.raised)
                  ELSE Response("run_task_generator", stored.result.value[1].id,
                                200, "", stored.result.value)
    /\ manual' = [manual EXCEPT ![i] = None]
    /\ ManualFrame

----------------------------------------------------------------------------
(* The background generator *)

SchedFrame == UNCHANGED <<resp, manual, registry, inbox, published>>

At(pc, data) == [pc |-> pc, data |-> data]

\* on_startup: create the tables, start background_task_generator.
on_startup ==
    /\ sched.pc = "init"
    /\ sched' = At("running", None)
    /\ UNCHANGED <<tasks, bgLog>>
    /\ SchedFrame

\* A cycle awaits the fetch; an exception is printed and the cycle is over.
background_fetch(http) ==
    LET got == fetch_external_todo(http) IN
    /\ sched.pc = "running"
    /\ IF got.raised # ""
       THEN /\ bgLog' = "Error while importing task"
            /\ sched' = At("sleeping", None)
       ELSE /\ bgLog' = bgLog
            /\ sched' = At("fetched", got.value)
    /\ tasks' = tasks
    /\ SchedFrame

\* Faulty variant: no try/except, an exception ends the generator.
background_store_uncaught(commit) ==
    /\ sched.pc = "fetched"
    /\ LET stored == StoreImported(sched.data[1], commit) IN
       /\ HasRoom(stored)
       /\ tasks' = stored.table
       /\ bgLog' = IF stored.result.raised # "" THEN bgLog
                   ELSE "Imported task from external API"
       /\ sched' = IF stored.result.raised # "" THEN At("stopped", None)
                   ELSE At("sleeping", None)
    /\ SchedFrame

\* The cycle stores what it fetched, prints the outcome and goes to sleep.
background_store(commit) ==
    /\ sched.pc = "fetched"
    /\ LET stored == StoreImported(sched.data[1], commit) IN
       /\ HasRoom(stored)
       /\ tasks' = stored.table
       /\ bgLog' = IF stored.result.raised # ""
                   THEN "Error while importing task"
                   ELSE "Imported task from external API"
    /\ sched' = At("sleeping", None)
    /\ SchedFrame

\* asyncio.sleep(period_seconds) is over: while True starts the next cycle.
background_wake ==
    /\ sched.pc = "sleeping"
    /\ sched' = At("running", None)
    /\ UNCHANGED <<tasks, bgLog>>
    /\ SchedFrame

background_task_generator ==
    \/ \E http \in HttpResponses : background_fetch(http)
    \/ \E c \in CommitOutcomes : background_store(c)
    \/ background_wake

----------------------------------------------------------------------------
(* Listener sessions of /ws/tasks *)

ListenFrame == UNCHANGED <<tasks, resp, manual, sched, bgLog, published>>

\* websockets.connect(WS_URL): the server registers a session for the client.
connect(s) ==
    /\ s \notin registry
    /\ registry' = registry \cup {s}
    /\ inbox' = [inbox EXCEPT ![s] = <<>>]
    /\ ListenFrame

\* The client goes away (KeyboardInterrupt): the session is unregistered.
disconnect(s) ==
    /\ s \in registry
    /\ registry' = registry \ {s}
    /\ inbox' = inbox
    /\ ListenFrame

\* The identifiers requests ask for: each is stored at some times and not at
\* others.
TaskIds == 1 .. MaxId

----------------------------------------------------------------------------

NoResponse == Response("none", 0, 0, "", NoTask)

Init ==
    /\ tasks = {}
    /\ resp = NoResponse
    /\ manual = [i \in ManualRequests |-> None]
    /\ sched = [pc |-> "init", data |-> None]
    /\ bgLog = "none"
    /\ registry = {}
    /\ inbox = [s \in Listeners |-> <<>>]
    /\ published = <<>>

Rest ==
    \/ get_tasks
    \/ \E id \in TaskIds : get_task(id)
    \/ \E d \in TaskCreateBodies, c \in CommitOutcomes : create_task(d, c)
    \/ \E id \in TaskIds, d \in TaskUpdateBodies, c \in CommitOutcomes :
          update_task(id, d, c)
    \/ \E id \in TaskIds, c \in CommitOutcomes : delete_task(id, c)

Manual ==
    \/ \E i \in ManualRequests, http \in HttpResponses :
          run_task_generator_fetch(i, http)
    \/ \E i \in ManualRequests, c \in CommitOutcomes :
          run_task_generator_store(i, c)

Background == on_startup \/ background_task_generator

Listen ==
    \/ \E s \in Listeners : connect(s)
    \/ \E s \in Listeners : disconnect(s)

\* The REST requests.
Next == Rest

Spec == Init /\ [][Next]_vars

\* The REST requests and the listeners.
EventNext == Rest \/ Listen

EventSpec == Init /\ [][EventNext]_vars

----------------------------------------------------------------------------
(* Properties of the REST handlers *)

Succeeded(r) == r.status \in {200, 201}

\* The event a finished mutation is expected to publish.
EventOf(r) ==
    CASE r.op = "update_task" -> Event("updated", r.id, r.task)
      [] r.op = "delete_task" -> Event("deleted", r.id, None)
      [] OTHER -> Event("created", r.id, r.task)

\* A step of a handler that changes a task.
Mutation ==
    \/ \E d \in TaskCreateBodies, c \in CommitOutcomes : create_task(d, c)
    \/ \E id \in TaskIds, d \in TaskUpdateBodies, c \in CommitOutcomes :
          update_task(id, d, c)
    \/ \E id \in TaskIds, c \in CommitOutcomes : delete_task(id, c)

\* C1: every successful create, update and delete publishes exactly one
\* event of its kind, with the task's id and (created, updated) the
\* resulting task, and a failed one publishes nothing.
C1_OneEventPerMutation ==
    [][Mutation =>
         published' = IF Succeeded(resp') THEN Append(published, EventOf(resp'))
                      ELSE published]_vars

\* C9: a listener session that is registered when a mutation happens and
\* stays connected gets that mutation's event once, after the events it
\* already has; a session registered later starts with none of them.
C9_ListenerGetsEachEventOnce ==
    [][/\ \A s \in registry \cap registry' :
            Mutation /\ Succeeded(resp') =>
                inbox'[s] = Append(inbox[s], EventOf(resp'))
       /\ \A s \in registry' \ registry : inbox'[s] = <<>>]_vars

\* The ids a step adds to the table and the ones it removes.
Added == IdsOf(tasks') \ Ids
Removed == Ids \ IdsOf(tasks')

\* The step is a request to handler op answered: the other steps leave resp
\* alone and move a manual request, the generator or a listener.
Handled(op) ==
    /\ resp'.op = op
    /\ manual' = manual /\ sched' = sched /\ registry' = registry

\* C5: a partial update of an existing task that goes through leaves every
\* field the body sent with the sent value, every other field with its value
\* from before, returns that row, and leaves all other rows unchanged; one
\* that fails (the commit, or a NOT NULL column set to null) changes nothing.
C5_PartialUpdate ==
    [][Handled("update_task") /\ resp'.id \in Ids =>
         LET d == resp'.patch
             old == Lookup(tasks, resp'.id)[1]
             new == Lookup(tasks', resp'.id)
         IN IF Succeeded(resp')
            THEN /\ update_task(resp'.id, d, "ok")
                 /\ new # None /\ resp'.task = new
                 /\ \A f \in Fields :
                       new[1][f] = IF f \in DOMAIN d THEN d[f] ELSE old[f]
                 /\ tasks' \ {new[1]} = tasks \ {old}
            ELSE tasks' = tasks /\ resp'.status = 500]_vars

\* An update that sent title alone went through on a task that has a
\* description, next to another task.
C5_Witness ==
    /\ resp.op = "update_task" /\ resp.status = 200
    /\ resp.task # None
    /\ resp.task[1].title = Some("b") /\ resp.task[1].description = Some("d")
    /\ resp.task[1].completed = Some(FALSE)
    /\ \E r \in tasks : r.id # resp.id /\ r.title = Some("a")

\* C6: a successful create returns a task whose id no stored task had, with
\* the sent fields and the defaults (completed false, description None) of
\* the others; a get of an id returns the stored row, which is the created
\* one as long as no update or delete of that id has come between.
C6_CreateFreshAndReadBack ==
    [][/\ Handled("create_task") /\ Succeeded(resp') =>
            /\ resp'.id \notin Ids
            /\ resp'.task # None /\ resp'.task[1].id = resp'.id
            /\ Lookup(tasks', resp'.id) = resp'.task
            /\ \A d \in TaskCreateBodies, c \in CommitOutcomes :
                  create_task(d, c) =>
                     /\ resp'.task[1].title = d["title"]
                     /\ resp'.task[1].description = Get(d, "description", None)
                     /\ resp'.task[1].completed = Get(d, "completed", Some(FALSE))
       /\ Handled("get_task") /\ resp'.id \in Ids =>
            /\ get_task(resp'.id)
            /\ resp'.status = 200 /\ resp'.task = Lookup(tasks, resp'.id)
       /\ \A id \in Ids :
            Lookup(tasks', id) # Lookup(tasks, id) =>
               /\ resp'.op \in {"update_task", "delete_task"}
               /\ resp'.id = id /\ Succeeded(resp')]_vars

\* A create that sent only a title went through while another task was
\* stored.
C6_Witness ==
    /\ resp.op = "create_task" /\ resp.status = 201
    /\ resp.task # None /\ resp.task[1] \in tasks
    /\ resp.task[1].completed = Some(FALSE) /\ resp.task[1].description = None
    /\ \E r \in tasks : r.id # resp.id

\* The request of the step, when it is a get, an update or a delete, names
\* the id its response carries.
AsksFor(id) ==
    \/ Handled("get_task") /\ get_task(id)
    \/ Handled("update_task")
         /\ \E d \in TaskUpdateBodies, c \in CommitOutcomes : update_task(id, d, c)
    \/ Handled("delete_task") /\ \E c \in CommitOutcomes : delete_task(id, c)

\* C7: get, update and delete of an id that is not stored answer 404 and
\* leave the table as it was; the id of a successful delete is not stored
\* after it, and only a create stores an id again.
C7_NotFound ==
    [][/\ resp'.id \notin Ids /\ AsksFor(resp'.id) =>
            resp'.status = 404 /\ tasks' = tasks
       /\ Handled("delete_task") /\ Succeeded(resp') =>
            /\ \E c \in CommitOutcomes : delete_task(resp'.id, c)
            /\ resp'.id \in Ids /\ resp'.id \notin IdsOf(tasks')
       /\ Added # {} => Handled("create_task") /\ Added = {resp'.id}]_vars

\* Id 1 was deleted (2 is still stored) and a request for 1 got 404.
C7_Witness ==
    /\ resp.status = 404 /\ resp.id = 1
    /\ resp.op \in {"get_task", "update_task", "delete_task"}
    /\ 1 \notin Ids /\ 2 \in Ids

----------------------------------------------------------------------------

\* The imports, manual and periodic, with deletes between their steps.
ImportNext ==
    \/ Manual
    \/ Background
    \/ \E id \in TaskIds, c \in CommitOutcomes : delete_task(id, c)

ImportSpec == Init /\ [][ImportNext]_vars

\* The generator next to one manual request and the deletes; the event loop
\* runs the generator whenever it can go on.
LiveNext ==
    \/ Background
    \/ \E http \in HttpResponses : run_task_generator_fetch("m1", http)
    \/ \E c \in CommitOutcomes : run_task_generator_store("m1", c)
    \/ \E id \in TaskIds, c \in CommitOutcomes : delete_task(id, c)

LiveSpec == Init /\ [][LiveNext]_vars /\ WF_vars(Background)

----------------------------------------------------------------------------
(* Properties of the imports *)

\* The GET of the external todo failed: the request raised, the status is an
\* error, or the body is no JSON.
UpstreamFails(http) == http.raised # "" \/ http.status >= 400 \/ ~http.parses

\* The body is a JSON object that lacks title or completed.
Malformed(json) ==
    /\ json.type = "object"
    /\ ~({"title", "completed"} \subseteq DOMAIN json.members)

\* The steps of one import: request i or the generator stores what it
\* fetched.
ManualStores(i) == manual[i] # None /\ manual'[i] = None
BackgroundStores == sched.pc = "fetched" /\ sched'.pc = "sleeping"

ManualFetchFailed == Handled("run_task_generator") /\ manual' = manual
BackgroundFetches == sched.pc = "running" /\ sched' # sched

\* The row an import builds from the object it fetched.
BuiltFrom(row, json) ==
    /\ json.type = "object"
    /\ row.title = Get(json.members, "title", Some("Imported task"))
    /\ row.completed = Some(Bool(Get(json.members, "completed", Some(FALSE))))
    /\ row.description =
          Some("Imported from JSONPlaceholder, remote_id="
                  \o Str(Get(json.members, "id", None)))

\* C2: a fetch that fails ends the import: the manual caller gets the
\* failure, the generator prints it, and the table and the published events
\* are what they were; and every import step either adds exactly one row or
\* leaves the table as it was.
C2_FailedFetchChangesNothing ==
    [][/\ \A i \in ManualRequests :
            manual[i] = None /\ (manual'[i] # None \/ ManualFetchFailed) =>
               \A http \in HttpResponses :
                  run_task_generator_fetch(i, http) /\ UpstreamFails(http) =>
                     /\ manual'[i] = None
                     /\ resp'.status = 500 /\ resp'.error # "" /\ resp'.task = NoTask
                     /\ tasks' = tasks /\ published' = published
       /\ BackgroundFetches =>
            \A http \in HttpResponses :
               background_fetch(http) /\ UpstreamFails(http) =>
                  /\ sched'.pc = "sleeping" /\ sched'.data = None
                  /\ bgLog' = "Error while importing task"
                  /\ tasks' = tasks /\ published' = published
       /\ (BackgroundStores \/ BackgroundFetches \/ resp'.op = "run_task_generator"
             \/ manual' # manual) =>
            \/ tasks' = tasks
            \/ \E r \in tasks' : r \notin tasks /\ tasks' = tasks \cup {r}]_vars

\* A manual import has just failed on its fetch while a row imported before
\* is stored.
C2_Witness ==
    /\ resp.op = "run_task_generator" /\ resp.status = 500
    /\ resp.error \in {"ConnectError", "HTTPStatusError", "JSONDecodeError"}
    /\ tasks # {}
    /\ bgLog = "Error while importing task"

\* C8, as the spec states it: a payload that is JSON but lacks title or
\* completed makes the fetch fail, so no import stores a row built from it.
C8_MalformedPayloadRejected ==
    [][/\ \A i \in ManualRequests :
            (manual[i] = None /\ manual'[i] # None) => ~Malformed(manual'[i][1])
       /\ (sched'.pc = "fetched" /\ sched.pc = "running") => ~Malformed(sched'.data[1])
       /\ \A i \in ManualRequests :
            (ManualStores(i) /\ Malformed(manual[i][1])) => tasks' = tasks]_vars

\* C8, amended: the fetch fails when the request raises, the status is an
\* error or the body is no JSON; a JSON array fails in the importer with
\* AttributeError and stores nothing; a JSON object is stored whatever keys
\* it lacks, with title "Imported task" and completed false in place of the
\* missing ones, unless the commit fails.
C8_MissingKeysGetDefaults ==
    [][/\ \A i \in ManualRequests :
            manual[i] = None /\ (manual'[i] # None \/ ManualFetchFailed) =>
               \A http \in HttpResponses :
                  run_task_generator_fetch(i, http) =>
                     IF UpstreamFails(http)
                     THEN manual'[i] = None /\ resp'.status = 500 /\ tasks' = tasks
                     ELSE manual'[i] = Some(http.json) /\ resp' = resp
       /\ \A i \in ManualRequests :
            ManualStores(i) =>
               LET json == manual[i][1] IN
               IF json.type # "object"
               THEN tasks' = tasks /\ resp'.error = "AttributeError"
               ELSE \/ tasks' = tasks /\ resp'.error = "OperationalError"
                    \/ /\ tasks' = tasks /\ resp'.error = "IntegrityError"
                       /\ Get(json.members, "title", Some("Imported task")) = None
                    \/ /\ Succeeded(resp') /\ resp'.task # None
                       /\ BuiltFrom(resp'.task[1], json)
                       /\ tasks' = tasks \cup {resp'.task[1]}
                       /\ resp'.task[1] \notin tasks]_vars

\* An import of an object with no title has gone through.
C8_Witness ==
    /\ resp.op = "run_task_generator" /\ resp.status = 200
    /\ resp.task # None /\ resp.task[1] \in tasks
    /\ resp.task[1].title = Some("Imported task")
    /\ resp.task[1].description = Some("Imported from JSONPlaceholder, remote_id=None")

\* C4: in every interleaving of the fetches and the stores of the manual
\* requests and the generator, a store that succeeds adds exactly one row,
\* under an id no stored row has, built from what that import fetched, and
\* a manual caller is returned that row; a store that fails adds none; and
\* no other step of an import adds or removes a row.
C4_OneTaskPerImport ==
    [][/\ \A i \in ManualRequests :
            ManualStores(i) =>
               IF Succeeded(resp')
               THEN /\ resp'.op = "run_task_generator" /\ resp'.task # None
                    /\ resp'.task[1].id = resp'.id
                    /\ resp'.id \notin Ids /\ resp'.task[1] \notin tasks
                    /\ tasks' = tasks \cup {resp'.task[1]}
                    /\ BuiltFrom(resp'.task[1], manual[i][1])
               ELSE tasks' = tasks /\ resp'.op = "run_task_generator"
       /\ BackgroundStores =>
            IF bgLog' = "Imported task from external API"
            THEN \E r \in tasks' :
                    /\ r.id \notin Ids /\ tasks' = tasks \cup {r}
                    /\ BuiltFrom(r, sched.data[1])
            ELSE tasks' = tasks /\ bgLog' = "Error while importing task"
       /\ Added # {} =>
            (BackgroundStores \/ \E i \in ManualRequests : ManualStores(i))
       /\ Removed # {} => Handled("delete_task")
       /\ Cardinality(IdsOf(tasks')) = Cardinality(tasks')]_vars

\* Request m1 has stored its task as the second row while request m2 and
\* the generator still hold what they fetched.
C4_Witness ==
    /\ manual["m1"] = None /\ manual["m2"] # None /\ sched.pc = "fetched"
    /\ resp.op = "run_task_generator" /\ resp.status = 200 /\ resp.id = 2
    /\ Cardinality(tasks) = 2

\* C3: a cycle of the generator, failed or not, ends asleep and the sleep
\* ends in a new cycle, so cycles start again and again; and no step of the
\* generator touches a request or its response.
C3_GeneratorNeverStops ==
    /\ []<>(sched.pc = "running")
    /\ []<>(sched.pc = "sleeping")
    /\ [][sched' # sched =>
            /\ resp' = resp /\ manual' = manual
            /\ sched.pc \in {"running", "fetched"} =>
                  \/ sched'.pc = "sleeping"
                  \/ sched.pc = "running" /\ sched'.pc = "fetched"
            /\ sched.pc = "sleeping" => sched'.pc = "running"]_vars

\* A new cycle is running after one that failed, with nothing stored.
C3_Witness ==
    /\ sched.pc = "running" /\ bgLog = "Error while importing task"
    /\ tasks = {}

----------------------------------------------------------------------------
(* All the operations together, on few inputs *)

OpsNext ==
    \/ get_tasks
    \/ \E id \in TaskIds : get_task(id)
    \/ \E c \in CommitOutcomes : create_task([title |-> Some("b")], c)
    \/ \E id \in TaskIds, c \in CommitOutcomes,
          d \in {[completed |-> Some(TRUE)], [title |-> None]} :
          update_task(id, d, c)
    \/ \E id \in TaskIds, c \in CommitOutcomes : delete_task(id, c)
    \/ \E http \in HttpResponses : run_task_generator_fetch("m1", http)
    \/ \E c \in CommitOutcomes : run_task_generator_store("m1", c)

OpsSpec == Init /\ [][OpsNext]_vars

\* C10: the set of stored ids changes only by a successful create or import,
\* which adds one id, and by a successful delete, which removes the id asked
\* for; get, list, update and every failed request leave it as it was, and
\* the rows that stay keep their ids, one row per id.
C10_IdsChangeOnlyByCreateAndDelete ==
    [][/\ Cardinality(Added) + Cardinality(Removed) <= 1
       /\ Added # {} =>
            \/ Handled("create_task") /\ Succeeded(resp') /\ Added = {resp'.id}
            \/ /\ \E i \in ManualRequests : ManualStores(i)
               /\ Succeeded(resp') /\ Added = {resp'.id}
       /\ Removed # {} =>
            Handled("delete_task") /\ Succeeded(resp') /\ Removed = {resp'.id}
       /\ (Handled("create_task") \/ \E i \in ManualRequests : ManualStores(i)) =>
            Cardinality(Added) = IF Succeeded(resp') THEN 1 ELSE 0
       /\ Handled("delete_task") =>
            Removed = IF Succeeded(resp') THEN {resp'.id} ELSE {}
       /\ (Handled("get_tasks") \/ Handled("get_task") \/ Handled("update_task")) =>
            IdsOf(tasks') = Ids
       /\ Cardinality(IdsOf(tasks')) = Cardinality(tasks')]_vars

\* An import has stored a row under id 1 after the row that had it was
\* deleted, next to a row made by a create.
C10_Witness ==
    /\ resp.op = "run_task_generator" /\ resp.status = 200 /\ resp.id = 2
    /\ \E r \in tasks : r.id = 1 /\ r.description = None
    /\ Cardinality(tasks) = 2

====
